---------------------------- MODULE Spec2Model ----------------------------
(***************************************************************************)
(* A model of goRedisPlus: the QuickList (paged list), the consistent-hash *)
(* ring, the time wheel, Cluster.Exec and the connection Handler.          *)
(*                                                                         *)
(* Each component has its own variables, initial predicate and next-state  *)
(* relation; a component's specification leaves the other components'      *)
(* variables unchanged.                                                    *)
(***************************************************************************)
EXTENDS Integers, Sequences, FiniteSets, TLC

VARIABLES
    ql_data,      \* QuickList.data: the linked list of pages, front to back
    ql_size,      \* QuickList.size
    ql_ret,       \* what the last QuickList operation returned (or that it panicked)
    ql_tailOnly   \* history: every operation so far acted on the tail of the list

VARIABLES
    m_replicas,   \* Map.replicas
    m_keys,       \* Map.keys: the hash points, sorted
    m_hashMap,    \* Map.hashMap: hash point -> node
    m_added,      \* history: the nodes AddNode has put on the ring
    m_picked      \* the last PickNode call: its key and what it returned

VARIABLES
    tw_interval,    \* TimeWheel.interval, in units of 1/UnitsPerSecond s
    tw_slotNum,     \* TimeWheel.slotNum
    tw_state,       \* "new", "running" (after Start), "stopped", "crashed", "jobPanic"
    tw_currentPos,  \* TimeWheel.currentPos
    tw_slots,       \* TimeWheel.slots: slot -> the list of its elements (task ids)
    tw_timer,       \* TimeWheel.timer: key -> location
    tw_tasks,       \* the tasks created so far, by id, with their history
    tw_scans,       \* the scanAndRunTask goroutines in flight
    tw_ticks,       \* history: the ticks the loop has handled
    tw_overlap      \* history: the loop handled a request while a scan was inside a list

VARIABLES
    cl_requirePass,  \* config.Properties.RequirePass
    cl_dbIsServer,   \* cluster.db holds a *database2.Server
    cl_conn,         \* the connection: its password, Multi flag and queued commands
    cl_last          \* the last call of Cluster.Exec: its command line and outcome

VARIABLES
    h_closing,       \* Handler.closing
    h_activeConn,    \* Handler.activeConn: the registered clients
    h_pc,            \* where each connection's Handle call stands
    h_sock,          \* each connection's socket: "open" or "closed"
    h_seq,           \* the payloads each connection's driver has received
    h_result,        \* the result Exec returned, until it is written
    h_log,           \* history: each connection's Exec calls and writes, in order
    h_cleaned,       \* history: the connections AfterClientClose was called for
    h_closePc        \* where the call of Handler.Close stands

VARIABLES
    sl_slots,        \* Cluster.slots: the key set (hostSlot.keys) of each slot in the table
    sl_last,         \* history: the last callback called for each key
    sl_calls         \* the callbacks that have looked up their slot and not yet returned

qlVars == <<ql_data, ql_size, ql_ret, ql_tailOnly>>

mVars == <<m_replicas, m_keys, m_hashMap, m_added, m_picked>>

twVars == <<tw_interval, tw_slotNum, tw_state, tw_currentPos, tw_slots, tw_timer,
            tw_tasks, tw_scans, tw_ticks, tw_overlap>>

clVars == <<cl_requirePass, cl_dbIsServer, cl_conn, cl_last>>

hVars == <<h_closing, h_activeConn, h_pc, h_sock, h_seq, h_result, h_log, h_cleaned,
           h_closePc>>

slVars == <<sl_slots, sl_last, sl_calls>>

vars == <<qlVars, mVars, twVars, clVars, hVars, slVars>>

\* what each component leaves alone
qlOthers == <<mVars, twVars, clVars, hVars, slVars>>

mOthers == <<qlVars, twVars, clVars, hVars, slVars>>

twOthers == <<qlVars, mVars, clVars, hVars, slVars>>

clOthers == <<qlVars, mVars, twVars, hVars, slVars>>

hOthers == <<qlVars, mVars, twVars, clVars, slVars>>

slOthers == <<qlVars, mVars, twVars, clVars, hVars>>

(***************************************************************************)
(* Generic helpers on sequences (Go slices are 0-based: offsets below are  *)
(* Go offsets, positions of a TLA+ sequence are offset + 1).               *)
(***************************************************************************)
\* s[lo:hi] of Go: the elements at offsets lo .. hi-1
Slice(s, lo, hi) == [i \in 1..(hi - lo) |-> s[lo + i]]

\* s with v put before the element at offset off
InsertAt(s, off, v) == Slice(s, 0, off) \o <<v>> \o Slice(s, off, Len(s))

\* append(s[:off], s[off+1:]...)
RemoveAt(s, off) == Slice(s, 0, off) \o Slice(s, off + 1, Len(s))

RECURSIVE SumLen(_)
SumLen(pages) ==
    IF pages = <<>> THEN 0 ELSE Len(Head(pages).elems) + SumLen(Tail(pages))

RECURSIVE Flatten(_)
Flatten(pages) ==
    IF pages = <<>> THEN <<>> ELSE Head(pages).elems \o Flatten(Tail(pages))

(***************************************************************************)
(* QuickList.                                                              *)
(*                                                                         *)
(* A page is a Go slice: its elements and the capacity of its backing      *)
(* array.  pageSize is 1024 in the source; the model scales it down to 4   *)
(* (it stays even, as the source requires).  When append has to grow a     *)
(* slice, Go only promises a "sufficiently large" new array: the new       *)
(* capacity is the needed length plus a slack drawn from Slack,           *)
(* chosen by the action.                                                   *)
(***************************************************************************)
pageSize == 4

MaxLen == 5       \* Add and Insert are not taken on a list of MaxLen elements

Vals == {1, 2}    \* the values stored in lists

Slack == {0, 1}   \* the spare capacity a growing append may leave

Page(elems, cap) == [elems |-> elems, cap |-> cap]

\* make([]interface{}, 0, pageSize) followed by append(page, val)
NewPage(val) == Page(<<val>>, pageSize)

\* the state an operation works on and hands back
QL(data, size) == [data |-> data, size |-> size, panic |-> FALSE, val |-> 0]

Panicked(q) == [q EXCEPT !.panic = TRUE]

\* append of one element in the middle of a page: in place when the capacity
\* allows it, into a new array of capacity len+1+slack otherwise
PageInsert(page, off, val, slack) ==
    Page(InsertAt(page.elems, off, val),
         IF Len(page.elems) + 1 <= page.cap
            THEN page.cap ELSE Len(page.elems) + 1 + slack)

AddFullAtHalf(q, val) ==
    LET n == Len(q.data) IN
    IF n = 0 THEN [q EXCEPT !.data = <<NewPage(val)>>, !.size = q.size + 1]
    ELSE LET backPage == q.data[n] IN
         IF Len(backPage.elems) >= pageSize \div 2
            THEN [q EXCEPT !.data = Append(q.data, NewPage(val)),
                           !.size = q.size + 1]
            ELSE [q EXCEPT !.data[n] = Page(Append(backPage.elems, val), backPage.cap),
                           !.size = q.size + 1]

\* QuickList.Add
Add(q, val) ==
    LET n == Len(q.data) IN
    IF n = 0 THEN [q EXCEPT !.data = <<NewPage(val)>>, !.size = q.size + 1]
    ELSE LET backPage == q.data[n] IN
         IF Len(backPage.elems) = backPage.cap
            THEN [q EXCEPT !.data = Append(q.data, NewPage(val)),
                           !.size = q.size + 1]
            ELSE [q EXCEPT !.data[n] = Page(Append(backPage.elems, val), backPage.cap),
                           !.size = q.size + 1]

(***************************************************************************)
(* iterator: node is the position of the page in the list (0 is nil).      *)
(***************************************************************************)
Iter(node, offset) == [node |-> node, offset |-> offset, panic |-> FALSE]

NilDeref == [node |-> 0, offset |-> 0, panic |-> TRUE]

RECURSIVE FindFront(_, _, _, _)
FindFront(data, n, pageBeg, index) ==
    IF n > Len(data) THEN NilDeref      \* n.Value on a nil element
    ELSE IF pageBeg + Len(data[n].elems) > index
            THEN Iter(n, index - pageBeg)
            ELSE FindFront(data, n + 1, pageBeg + Len(data[n].elems), index)

RECURSIVE FindBack(_, _, _, _)
FindBack(data, n, pageEnd, index) ==
    IF n < 1 THEN NilDeref
    ELSE LET pageBeg == pageEnd - Len(data[n].elems) IN
         IF pageBeg <= index
            THEN Iter(n, index - pageBeg)
            ELSE FindBack(data, n - 1, pageBeg, index)

findBackFromLast(q, index) ==
    IF index < 0 \/ index >= q.size THEN NilDeref
    ELSE IF index < q.size \div 2
            THEN FindFront(q.data, 1, 0, index)
            ELSE FindBack(q.data, Len(q.data), q.size - 1, index)

\* QuickList.find
find(q, index) ==
    IF index < 0 \/ index >= q.size THEN NilDeref   \* panic("index out of bound")
    ELSE IF index < q.size \div 2
            THEN FindFront(q.data, 1, 0, index)
            ELSE FindBack(q.data, Len(q.data), q.size, index)

\* QuickList.Get: find, then iterator.get; page()[offset] panics out of range
Get(q, index) ==
    LET iter == find(q, index) IN
    IF iter.panic THEN [panic |-> TRUE, val |-> 0]
    ELSE IF iter.offset < 0 \/ iter.offset >= Len(q.data[iter.node].elems)
            THEN [panic |-> TRUE, val |-> 0]
            ELSE [panic |-> FALSE, val |-> q.data[iter.node].elems[iter.offset + 1]]

\* QuickList.Set
Set(q, index, val) ==
    LET iter == find(q, index) IN
    IF iter.panic THEN Panicked(q)
    ELSE IF iter.offset < 0 \/ iter.offset >= Len(q.data[iter.node].elems)
            THEN Panicked(q)
            ELSE [q EXCEPT !.data[iter.node].elems[iter.offset + 1] = val]

\* Insert's two branches below the call of find
InsertAtIter(q, iter, val, slack) ==
    LET page == q.data[iter.node]
        half == pageSize \div 2
    IN
    IF Len(page.elems) < pageSize
       THEN [q EXCEPT !.data[iter.node] = PageInsert(page, iter.offset, val, slack),
                      !.size = q.size + 1]
       ELSE LET next0 == Page(Slice(page.elems, half, Len(page.elems)),
                              Len(page.elems) - half + slack)
                page0 == Page(Slice(page.elems, 0, half), page.cap)
                page1 == IF iter.offset < half
                            THEN PageInsert(page0, iter.offset, val, slack) ELSE page0
                next1 == IF iter.offset < half
                            THEN next0
                            ELSE PageInsert(next0, iter.offset - half, val, slack)
            IN [q EXCEPT !.data = Slice(q.data, 0, iter.node - 1)
                                    \o <<page1, next1>>
                                    \o Slice(q.data, iter.node, Len(q.data)),
                         !.size = q.size + 1]

InsertNoSizeOnSplit(q, index, val, slack) ==
    IF index = q.size THEN Add(q, val)
    ELSE LET iter == find(q, index) IN
         IF iter.panic THEN Panicked(q)
         ELSE LET r == InsertAtIter(q, iter, val, slack) IN
              IF Len(q.data[iter.node].elems) < pageSize
                 THEN r ELSE [r EXCEPT !.size = q.size]

\* QuickList.Insert
Insert(q, index, val, slack) ==
    IF index = q.size THEN Add(q, val)
    ELSE LET iter == find(q, index) IN
         IF iter.panic THEN Panicked(q)
         ELSE InsertAtIter(q, iter, val, slack)


(***************************************************************************)
(* The iterator's methods work on st: the list, the iterator (node,        *)
(* offset), the count of removed elements and whether a panic ended the    *)
(* operation (everything done before the panic stays done).                *)
(***************************************************************************)
St(q, iter) ==
    [data |-> q.data, size |-> q.size, node |-> iter.node, offset |-> iter.offset,
     removed |-> 0, panic |-> iter.panic, val |-> 0]

Front(data) == IF Len(data) = 0 THEN 0 ELSE 1

Back(data) == Len(data)

\* iter.page()[iter.offset] can be evaluated
CanGet(st) ==
    /\ st.node >= 1 /\ st.node <= Len(st.data)
    /\ st.offset >= 0 /\ st.offset < Len(st.data[st.node].elems)

\* iterator.get
get(st) == st.data[st.node].elems[st.offset + 1]

\* iterator.next
next(st) ==
    IF st.node = 0 THEN [st EXCEPT !.panic = TRUE]
    ELSE LET page == st.data[st.node].elems IN
         IF st.offset < Len(page) - 1 THEN [st EXCEPT !.offset = st.offset + 1]
         ELSE IF st.node = Back(st.data) THEN [st EXCEPT !.offset = Len(page)]
         ELSE [st EXCEPT !.offset = 0, !.node = st.node + 1]

\* iterator.prev
prev(st) ==
    IF st.offset > 0 THEN [st EXCEPT !.offset = st.offset - 1]
    ELSE IF st.node = Front(st.data) THEN [st EXCEPT !.offset = -1]
    ELSE IF st.node = 0 THEN [st EXCEPT !.panic = TRUE]    \* nil.Prev()
    ELSE [st EXCEPT !.node = st.node - 1,
                    !.offset = Len(st.data[st.node - 1].elems) - 1]

\* iterator.atEnd
atEnd(st) ==
    IF Len(st.data) = 0 THEN TRUE
    ELSE IF st.node # Back(st.data) THEN FALSE
    ELSE st.offset = Len(st.data[st.node].elems)

\* iterator.atBegin
atBegin(st) ==
    IF Len(st.data) = 0 THEN TRUE
    ELSE IF st.node # Front(st.data) THEN FALSE
    ELSE st.offset = -1

\* iterator.remove
remove(st) ==
    IF ~CanGet(st) THEN [st EXCEPT !.panic = TRUE]
    ELSE
    LET old  == st.data[st.node].elems
        page == RemoveAt(old, st.offset)
        val  == old[st.offset + 1]
    IN
    IF Len(page) > 0
       THEN LET moved == st.offset = Len(page) /\ st.node # Back(st.data) IN
            [st EXCEPT !.data[st.node].elems = page,
                       !.node = IF moved THEN st.node + 1 ELSE st.node,
                       !.offset = IF moved THEN 0 ELSE st.offset,
                       !.size = st.size - 1,
                       !.val = val]
       ELSE [st EXCEPT !.data = RemoveAt(st.data, st.node - 1),
                       !.node = IF st.node = Back(st.data) THEN 0 ELSE st.node,
                       !.offset = 0,
                       !.size = st.size - 1,
                       !.val = val]

\* what an operation hands back: the list, the return value, the panic
Result(st, val) ==
    [data |-> st.data, size |-> st.size, panic |-> st.panic, val |-> val]

\* QuickList.Remove
Remove(q, index) ==
    LET st == remove(St(q, find(q, index))) IN
    IF find(q, index).panic THEN Panicked(q) ELSE Result(st, st.val)

RemoveLastKeepsPage(q) ==
    IF q.size = 0 THEN q
    ELSE LET n == Len(q.data)
             lastPage == q.data[n].elems
         IN [q EXCEPT !.size = q.size - 1,
                      !.data[n].elems = Slice(lastPage, 0, Len(lastPage) - 1),
                      !.val = lastPage[Len(lastPage)]]

\* QuickList.RemoveLast (nil is returned as 0)
RemoveLast(q) ==
    IF q.size = 0 THEN q
    ELSE LET n == Len(q.data)
             lastPage == q.data[n].elems
         IN IF Len(lastPage) = 1
               THEN [q EXCEPT !.size = q.size - 1,
                              !.data = Slice(q.data, 0, n - 1),
                              !.val = lastPage[1]]
               ELSE [q EXCEPT !.size = q.size - 1,
                              !.data[n].elems = Slice(lastPage, 0, Len(lastPage) - 1),
                              !.val = lastPage[Len(lastPage)]]

\* the loop of RemoveAllByVal; expected(v) is v = target
RECURSIVE RemoveAllLoop(_, _)
RemoveAllLoop(st, target) ==
    IF st.panic \/ atEnd(st) THEN st
    ELSE IF ~CanGet(st) THEN [st EXCEPT !.panic = TRUE]
    ELSE IF get(st) = target
            THEN RemoveAllLoop([remove(st) EXCEPT !.removed = st.removed + 1], target)
            ELSE RemoveAllLoop(next(st), target)

\* QuickList.RemoveAllByVal
RemoveAllByVal(q, target) ==
    LET iter == find(q, 0) IN
    IF iter.panic THEN Panicked(q)
    ELSE LET st == RemoveAllLoop(St(q, iter), target) IN Result(st, st.removed)

\* the loop of RemoveByVal
RECURSIVE RemoveByValLoop(_, _, _)
RemoveByValLoop(st, target, count) ==
    IF st.panic \/ atEnd(st) THEN st
    ELSE IF ~CanGet(st) THEN [st EXCEPT !.panic = TRUE]
    ELSE IF get(st) = target
            THEN LET r == [remove(st) EXCEPT !.removed = st.removed + 1] IN
                 IF r.removed = count THEN r ELSE RemoveByValLoop(r, target, count)
            ELSE RemoveByValLoop(next(st), target, count)

\* QuickList.RemoveByVal
RemoveByVal(q, target, count) ==
    IF q.size = 0 THEN q
    ELSE LET iter == find(q, 0) IN
         IF iter.panic THEN Panicked(q)
         ELSE LET st == RemoveByValLoop(St(q, iter), target, count)
              IN Result(st, st.removed)

\* the loop of ReverseRemoveByVal
RECURSIVE ReverseRemoveLoop(_, _, _)
ReverseRemoveLoop(st, target, count) ==
    IF st.panic \/ atBegin(st) THEN st
    ELSE IF ~CanGet(st) THEN [st EXCEPT !.panic = TRUE]
    ELSE IF get(st) = target
            THEN LET r == [remove(st) EXCEPT !.removed = st.removed + 1] IN
                 IF r.removed = count THEN r
                 ELSE ReverseRemoveLoop(prev(r), target, count)
            ELSE ReverseRemoveLoop(prev(st), target, count)

\* QuickList.ReverseRemoveByVal
ReverseRemoveByVal(q, target, count) ==
    IF q.size = 0 THEN q
    ELSE LET iter == find(q, q.size - 1) IN
         IF iter.panic THEN Panicked(q)
         ELSE LET st == ReverseRemoveLoop(St(q, iter), target, count)
              IN Result(st, st.removed)


(***************************************************************************)
(* The QuickList's operations as actions, called with indexes inside their *)
(* bounds.  ql_ret records the last operation's return value and, when it  *)
(* panicked, the name of the operation; a panic leaves the list as the     *)
(* operation had changed it so far.                                        *)
(***************************************************************************)
Ret(op, r) == [val |-> r.val, panic |-> IF r.panic THEN op ELSE ""]

Counts == {1, 2}        \* the count argument of RemoveByVal and ReverseRemoveByVal

\* the state of the list while another component runs
QLIdle ==
    /\ ql_data = <<>>
    /\ ql_size = 0
    /\ ql_ret = [val |-> 0, panic |-> ""]
    /\ ql_tailOnly = TRUE

QLInit ==
    /\ ql_data = <<>>
    /\ ql_size = 0
    /\ ql_ret = [val |-> 0, panic |-> ""]
    /\ ql_tailOnly = TRUE

QLApply(op, r, tail) ==
    /\ ql_data' = r.data
    /\ ql_size' = r.size
    /\ ql_ret' = Ret(op, r)
    /\ ql_tailOnly' = (ql_tailOnly /\ tail)
    /\ UNCHANGED qlOthers

QLAdd ==
    /\ ql_size < MaxLen
    /\ \E v \in Vals : QLApply("Add", Add(QL(ql_data, ql_size), v), TRUE)

QLInsert ==
    /\ ql_size < MaxLen
    /\ \E index \in 0..ql_size, v \in Vals, slack \in Slack :
          QLApply("Insert", Insert(QL(ql_data, ql_size), index, v, slack),
                  index = ql_size)

QLSet ==
    \E index \in 0..(ql_size - 1), v \in Vals :
        QLApply("Set", Set(QL(ql_data, ql_size), index, v), TRUE)

QLRemove ==
    \E index \in 0..(ql_size - 1) :
        QLApply("Remove", Remove(QL(ql_data, ql_size), index), FALSE)

QLRemoveLast ==
    QLApply("RemoveLast", RemoveLast(QL(ql_data, ql_size)), TRUE)

QLRemoveAllByVal ==
    \E target \in Vals :
        QLApply("RemoveAllByVal", RemoveAllByVal(QL(ql_data, ql_size), target), FALSE)

QLRemoveByVal ==
    \E target \in Vals, count \in Counts :
        QLApply("RemoveByVal", RemoveByVal(QL(ql_data, ql_size), target, count), FALSE)

QLReverseRemoveByVal ==
    \E target \in Vals, count \in Counts :
        QLApply("ReverseRemoveByVal",
                ReverseRemoveByVal(QL(ql_data, ql_size), target, count), FALSE)

QLNext ==
    \/ QLAdd
    \/ QLInsert
    \/ QLSet
    \/ QLRemove
    \/ QLRemoveLast
    \/ QLRemoveAllByVal
    \/ QLRemoveByVal
    \/ QLReverseRemoveByVal

(***************************************************************************)
(* Consistent-hash ring (Map).                                             *)
(*                                                                         *)
(* A string is a sequence of characters.  New takes the hash function as a *)
(* parameter; the model's hashFunc is a polynomial hash into 0..HashSpace-1 *)
(* (a uint32 in the source, scaled down).                                  *)
(***************************************************************************)
HashSpace == 16

MaxReplicas == 2    \* New is called with 1..MaxReplicas replicas

MaxPoints == 4      \* AddNode is not taken when it would put more points on the ring

MaxKeyLen == 3      \* the longest key PickNode is called with

Chars == {"{", "}", "a", "b"}      \* the characters of keys

Nodes == {<<"a">>, <<"b">>, <<"a", "b">>}     \* the node names given to AddNode

Code(c) ==
    CASE c = "{" -> 1 [] c = "}" -> 2 [] c = "a" -> 3 [] c = "b" -> 4
      [] c = "0" -> 5 [] c = "1" -> 6 [] c = "2" -> 7 [] OTHER -> 8

RECURSIVE HashFrom(_, _)
HashFrom(h, data) ==
    IF data = <<>> THEN h
    ELSE HashFrom((h * 5 + Code(Head(data))) % HashSpace, Tail(data))

\* Map.hashFunc
hashFunc(data) == HashFrom(0, data)

\* strconv.Itoa for one digit
Itoa(i) == <<CASE i = 0 -> "0" [] i = 1 -> "1" [] i = 2 -> "2" [] OTHER -> "9">>

\* strings.Index(key, c) for a one-character c: the offset of its first
\* occurrence, -1 when there is none
RECURSIVE IndexFrom(_, _, _)
IndexFrom(key, c, off) ==
    IF off >= Len(key) THEN -1
    ELSE IF key[off + 1] = c THEN off ELSE IndexFrom(key, c, off + 1)

Index(key, c) == IndexFrom(key, c, 0)

\* the result of a function that may panic
Ok(v) == [panic |-> FALSE, val |-> v]

Panic == [panic |-> TRUE, val |-> <<>>]

\* getPartitionKey; key[beg+1:end] panics when end < beg + 1
getPartitionKey(key) ==
    LET beg == Index(key, "{")
        end == Index(key, "}")
    IN
    IF beg = -1 THEN Ok(key)
    ELSE IF end = -1 \/ end = beg + 1 THEN Ok(key)
    ELSE IF beg + 1 > end THEN Panic
    ELSE Ok(Slice(key, beg + 1, end))

\* sort.Ints: insertion of each element into a sorted sequence
RECURSIVE InsertSorted(_, _)
InsertSorted(s, x) ==
    IF s = <<>> THEN <<x>>
    ELSE IF x <= Head(s) THEN <<x>> \o s
    ELSE <<Head(s)>> \o InsertSorted(Tail(s), x)

RECURSIVE SortInts(_)
SortInts(s) == IF s = <<>> THEN <<>> ELSE InsertSorted(SortInts(Tail(s)), Head(s))

\* sort.Search(n, f) with f(i) = keys[i] >= hash: binary search on offsets [i, j)
RECURSIVE Search(_, _, _, _)
Search(keys, hash, i, j) ==
    IF i >= j THEN i
    ELSE LET h == (i + j) \div 2 IN
         IF ~(keys[h + 1] >= hash)
            THEN Search(keys, hash, h + 1, j)
            ELSE Search(keys, hash, i, h)

\* the points AddNode appends for one node: replicas i = 0 .. replicas-1
RECURSIVE NodePoints(_, _, _)
NodePoints(key, i, replicas) ==
    IF i >= replicas THEN <<>>
    ELSE <<hashFunc(Itoa(i) \o key)>> \o NodePoints(key, i + 1, replicas)

\* hashMap[hash] = key for each point of the sequence
RECURSIVE PutAll(_, _, _)
PutAll(hashMap, points, key) ==
    IF points = <<>> THEN hashMap
    ELSE PutAll([h \in DOMAIN hashMap \cup {Head(points)} |->
                    IF h = Head(points) THEN key ELSE hashMap[h]],
                Tail(points), key)

\* the loop of AddNode over its arguments, before the sort
RECURSIVE AddNodeLoop(_, _, _)
AddNodeLoop(m, keys, replicas) ==
    IF keys = <<>> THEN m
    ELSE IF Head(keys) = <<>> THEN AddNodeLoop(m, Tail(keys), replicas)
    ELSE LET points == NodePoints(Head(keys), 0, replicas) IN
         AddNodeLoop([keys |-> m.keys \o points,
                      hashMap |-> PutAll(m.hashMap, points, Head(keys))],
                     Tail(keys), replicas)

\* Map.AddNode
AddNode(m, keys, replicas) ==
    LET r == AddNodeLoop(m, keys, replicas) IN
    [keys |-> SortInts(r.keys), hashMap |-> r.hashMap]

\* Map.PickNode
PickNode(m, key) ==
    IF Len(m.keys) = 0 THEN Ok(<<>>)
    ELSE LET partitionKey == getPartitionKey(key) IN
         IF partitionKey.panic THEN Panic
         ELSE LET hash == hashFunc(partitionKey.val)
                  found == Search(m.keys, hash, 0, Len(m.keys))
                  idx  == IF found = Len(m.keys) THEN 0 ELSE found
              IN Ok(m.hashMap[m.keys[idx + 1]])

\* key carries a hash tag: a "{", and a "}" after it with characters in between
HasHashTag(key) ==
    LET beg == Index(key, "{")
        end == Index(key, "}")
    IN beg # -1 /\ end > beg + 1

HashTag(key) == Slice(key, Index(key, "{") + 1, Index(key, "}"))

RECURSIVE StrsOfLen(_)
StrsOfLen(n) ==
    IF n = 0 THEN {<<>>}
    ELSE {<<c>> \o t : c \in Chars, t \in StrsOfLen(n - 1)}

Strs(n) == UNION {StrsOfLen(k) : k \in 0..n}

Map == [keys |-> m_keys, hashMap |-> m_hashMap]

\* the state of the ring while another component runs
MIdle ==
    /\ m_replicas = 1
    /\ m_keys = <<>>
    /\ m_hashMap = <<>>
    /\ m_added = {}
    /\ m_picked = [key |-> <<>>, ret |-> Ok(<<>>)]

\* New(replicas, fn)
MInit ==
    /\ m_replicas \in 1..MaxReplicas
    /\ m_keys = <<>>
    /\ m_hashMap = <<>>
    /\ m_added = {}
    /\ m_picked = [key |-> <<>>, ret |-> Ok(<<>>)]

\* AddNode with one or two node names, the empty name among them
MAddNode ==
    \E keys \in {<<k>> : k \in Nodes \cup {<<>>}}
                  \cup {<<k1, k2>> : k1 \in Nodes \cup {<<>>}, k2 \in Nodes} :
        LET m == AddNode(Map, keys, m_replicas) IN
        /\ Len(m.keys) <= MaxPoints
        /\ m_keys' = m.keys
        /\ m_hashMap' = m.hashMap
        /\ m_added' = m_added \cup ({keys[i] : i \in 1..Len(keys)} \ {<<>>})
        /\ UNCHANGED <<m_replicas, m_picked>>
        /\ UNCHANGED mOthers

MPickNode ==
    \E key \in Strs(MaxKeyLen) :
        /\ m_picked' = [key |-> key, ret |-> PickNode(Map, key)]
        /\ UNCHANGED <<m_replicas, m_keys, m_hashMap, m_added>>
        /\ UNCHANGED mOthers

MNext ==
    \/ MAddNode
    \/ MPickNode

(***************************************************************************)
(* Time wheel.                                                             *)
(*                                                                         *)
(* A duration is a number of units of 1/UnitsPerSecond second, so that     *)
(* Duration.Seconds() followed by int() truncates.  An element of a slot   *)
(* list is named by the id of its task; tw_tasks[id].list is the slot      *)
(* whose list holds the element, or -1 once the element is removed         *)
(* (container/list sets e.list = nil and e.next = nil on Remove).          *)
(*                                                                         *)
(* tickHandler starts scanAndRunTask as a goroutine of its own ("go"), so  *)
(* a scan runs beside the loop: tw_scans holds the scans in flight, and a  *)
(* scan takes one step per list element.                                   *)
(***************************************************************************)
UnitsPerSecond == 2

MaxTasks == 2       \* AddJob is not taken once MaxTasks tasks were created

MaxTicks == 3       \* the ticker delivers at most MaxTicks ticks

MaxScans == 2       \* a tick is not handled while MaxScans scans are in flight

Intervals == {1, 2}          \* New's interval: 0.5 s and 1 s

SlotNums == {2}              \* New's slotNum

Delays == {0, 2, 3, 6}       \* AddJob's delay: 0 s, 1 s, 1.5 s, 3 s

TWKeys == {"", "a", "b"}     \* AddJob's key

\* int(d.Seconds())
Seconds(d) == d \div UnitsPerSecond

\* TimeWheel.getPositionAndCircle; the division panics when interval < 1 s
getPositionAndCircle(d, interval, currentPos, slotNum) ==
    LET delaySeconds == Seconds(d)
        intervalSeconds == Seconds(interval)
    IN IF intervalSeconds = 0 THEN [panic |-> TRUE, pos |-> 0, circle |-> 0]
       ELSE [panic |-> FALSE,
             circle |-> (delaySeconds \div intervalSeconds) \div slotNum,
             pos |-> (currentPos + delaySeconds \div intervalSeconds) % slotNum]

\* (*list.Element).Next: nil (0) for a removed element and for the last one
Next(slots, tasks, e) ==
    LET l == tasks[e].list IN
    IF l = -1 THEN 0
    ELSE LET i == CHOOSE i \in 1..Len(slots[l]) : slots[l][i] = e IN
         IF i = Len(slots[l]) THEN 0 ELSE slots[l][i + 1]

\* (*list.List).Remove on slot l: nothing when e is no element of that list
ListRemove(slots, tasks, l, e) ==
    IF tasks[e].list # l THEN slots
    ELSE [slots EXCEPT ![l] = SelectSeq(slots[l], LAMBDA x : x # e)]

Unlinked(tasks, l, e) ==
    IF tasks[e].list # l THEN tasks ELSE [tasks EXCEPT ![e].list = -1]

\* delete(tw.timer, key)
MapDelete(timer, key) == [k \in DOMAIN timer \ {key} |-> timer[k]]

\* tw.timer[key] = loc
MapPut(timer, key, loc) ==
    [k \in DOMAIN timer \cup {key} |-> IF k = key THEN loc ELSE timer[k]]

\* the wheel's lists, map and tasks, as one value the handlers work on
Wheel == [slots |-> tw_slots, timer |-> tw_timer, tasks |-> tw_tasks]

\* TimeWheel.removeTask; why is what the history records for the removed task
removeTask(w, key, why) ==
    IF key \notin DOMAIN w.timer THEN w
    ELSE LET pos == w.timer[key]
             e == pos.etask
         IN [slots |-> ListRemove(w.slots, w.tasks, pos.slot, e),
             timer |-> MapDelete(w.timer, key),
             tasks |-> [Unlinked(w.tasks, pos.slot, e) EXCEPT
                           ![e].cancelled =
                               IF w.tasks[e].fired = 0 /\ w.tasks[e].cancelled = ""
                                  THEN why ELSE w.tasks[e].cancelled]]

NewTask(key, d, circle, pos, ticks) ==
    [key |-> key, delay |-> d, circle |-> circle, list |-> pos,
     addedAt |-> ticks, fired |-> 0, firedAt |-> 0, cancelled |-> "",
     firedCancelled |-> FALSE, worker |-> ""]

\* TimeWheel.addTask, below the call of getPositionAndCircle
addTask(w, key, d, pc, ticks) ==
    LET e == Len(w.tasks) + 1
        w1 == [slots |-> [w.slots EXCEPT ![pc.pos] = Append(@, e)],
               timer |-> w.timer,
               tasks |-> Append(w.tasks, NewTask(key, d, pc.circle, pc.pos, ticks))]
        w2 == IF key # "" /\ key \in DOMAIN w1.timer
                 THEN removeTask(w1, key, "replaced") ELSE w1
    IN [w2 EXCEPT !.timer = MapPut(w2.timer, key, [slot |-> pc.pos, etask |-> e])]

TWSet(w) ==
    /\ tw_slots' = w.slots
    /\ tw_timer' = w.timer
    /\ tw_tasks' = w.tasks

\* the wheel while another component runs
TWIdle ==
    /\ tw_interval = 2
    /\ tw_slotNum = 2
    /\ tw_state = "new"
    /\ tw_currentPos = 0
    /\ tw_slots = [i \in 0..1 |-> <<>>]
    /\ tw_timer = <<>>
    /\ tw_tasks = <<>>
    /\ tw_scans = <<>>
    /\ tw_ticks = 0
    /\ tw_overlap = FALSE

\* New(interval, slotNum), with interval > 0 and slotNum > 0
TWInit ==
    /\ tw_interval \in Intervals
    /\ tw_slotNum \in SlotNums
    /\ tw_state = "new"
    /\ tw_currentPos = 0
    /\ tw_slots = [i \in 0..(tw_slotNum - 1) |-> <<>>]
    /\ tw_timer = <<>>
    /\ tw_tasks = <<>>
    /\ tw_scans = <<>>
    /\ tw_ticks = 0
    /\ tw_overlap = FALSE

\* a scanAndRunTask goroutine holds an element of a slot list
ScanInList == \E i \in 1..Len(tw_scans) : tw_scans[i].pc = "loop"

\* TimeWheel.Start
TWStart ==
    /\ tw_state = "new"
    /\ tw_state' = "running"
    /\ UNCHANGED <<tw_interval, tw_slotNum, tw_currentPos, tw_slots, tw_timer,
                   tw_tasks, tw_scans, tw_ticks, tw_overlap>>
    /\ UNCHANGED twOthers

\* TimeWheel.Stop, received by the loop
TWStop ==
    /\ tw_state = "running"
    /\ tw_state' = "stopped"
    /\ UNCHANGED <<tw_interval, tw_slotNum, tw_currentPos, tw_slots, tw_timer,
                   tw_tasks, tw_scans, tw_ticks, tw_overlap>>
    /\ UNCHANGED twOthers

\* the loop receives a tick: TimeWheel.tickHandler
TWTick ==
    /\ tw_state = "running"
    /\ tw_ticks < MaxTicks
    /\ Len(tw_scans) < MaxScans
    /\ tw_scans' = Append(tw_scans, [l |-> tw_currentPos, e |-> 0, pc |-> "front"])
    /\ tw_currentPos' = IF tw_currentPos = tw_slotNum - 1 THEN 0 ELSE tw_currentPos + 1
    /\ tw_ticks' = tw_ticks + 1
    /\ UNCHANGED <<tw_interval, tw_slotNum, tw_state, tw_slots, tw_timer, tw_tasks,
                   tw_overlap>>
    /\ UNCHANGED twOthers

\* AddJob(delay, key, job) with delay >= 0, received by the loop: TimeWheel.addTask
TWAddJob ==
    /\ tw_state = "running"
    /\ Len(tw_tasks) < MaxTasks
    /\ \E d \in Delays, key \in TWKeys :
          LET pc == getPositionAndCircle(d, tw_interval, tw_currentPos, tw_slotNum) IN
          IF pc.panic
             THEN /\ tw_state' = "crashed"
                  /\ UNCHANGED <<tw_slots, tw_timer, tw_tasks, tw_overlap>>
             ELSE /\ TWSet(addTask(Wheel, key, d, pc, tw_ticks))
                  /\ tw_overlap' = (tw_overlap \/ ScanInList)
                  /\ UNCHANGED tw_state
    /\ UNCHANGED <<tw_interval, tw_slotNum, tw_currentPos, tw_scans, tw_ticks>>
    /\ UNCHANGED twOthers

\* RemoveJob(key) with a non-empty key, received by the loop: TimeWheel.removeTask
TWRemoveJob ==
    /\ tw_state = "running"
    /\ \E key \in TWKeys \ {""} :
          /\ TWSet(removeTask(Wheel, key, "removed"))
          /\ tw_overlap' = (tw_overlap \/ ScanInList)
    /\ UNCHANGED <<tw_interval, tw_slotNum, tw_state, tw_currentPos, tw_scans, tw_ticks>>
    /\ UNCHANGED twOthers

\* tw_scans without its i-th goroutine when that one has reached the end (e = 0)
ScansAfter(i, e) ==
    IF e = 0 THEN [j \in 1..(Len(tw_scans) - 1) |->
                      IF j < i THEN tw_scans[j] ELSE tw_scans[j + 1]]
    ELSE [tw_scans EXCEPT ![i].e = e, ![i].pc = "loop"]

\* scanAndRunTask begins: e := l.Front()
TWScanFront ==
    \E i \in 1..Len(tw_scans) :
        /\ tw_scans[i].pc = "front"
        /\ LET l == tw_slots[tw_scans[i].l] IN
           tw_scans' = ScansAfter(i, IF l = <<>> THEN 0 ELSE l[1])
        /\ UNCHANGED <<tw_interval, tw_slotNum, tw_state, tw_currentPos, tw_slots,
                       tw_timer, tw_tasks, tw_ticks, tw_overlap>>
        /\ UNCHANGED twOthers

\* what a job does when it is called
JobKinds == {"returns", "blocks", "panics"}

runInline(kind) ==
    [worker |-> "none",
     scan |-> CASE kind = "blocks" -> "stuck" [] kind = "panics" -> "panicked"
                [] OTHER -> "on"]

\* the dispatch of a due job: "go func() { defer recover...; job() }()".  The
\* job runs in a goroutine of its own, where it returns, blocks for ever, or
\* panics and is recovered; the scan goes on at once.
runInWorker(kind) ==
    [worker |-> CASE kind = "blocks" -> "blocked" [] kind = "panics" -> "recovered"
                  [] OTHER -> "done",
     scan |-> "on"]

\* one iteration of scanAndRunTask's loop on element e
scanStep(w, l, e, ticks, kind) ==
    LET task == w.tasks[e] IN
    IF task.circle > 0
       THEN [w EXCEPT !.tasks[e].circle = task.circle - 1]
       ELSE [slots |-> ListRemove(w.slots, w.tasks, l, e),
             timer |-> IF task.key # "" THEN MapDelete(w.timer, task.key) ELSE w.timer,
             tasks |-> [Unlinked(w.tasks, l, e) EXCEPT
                           ![e].fired = task.fired + 1,
                           ![e].firedAt = ticks,
                           ![e].firedCancelled = (task.cancelled # ""),
                           ![e].worker = runInWorker(kind).worker]]

TWScanStep ==
    \E i \in 1..Len(tw_scans) :
        /\ tw_scans[i].pc = "loop"
        /\ LET e == tw_scans[i].e
               due == tw_tasks[e].circle = 0
           IN
           \E kind \in IF due THEN JobKinds ELSE {"returns"} :
              LET scan == IF due THEN runInWorker(kind).scan ELSE "on" IN
              CASE scan = "on" ->
                      /\ TWSet(scanStep(Wheel, tw_scans[i].l, e, tw_ticks, kind))
                      /\ tw_scans' = ScansAfter(i, Next(tw_slots, tw_tasks, e))
                      /\ UNCHANGED tw_state
                [] scan = "stuck" ->
                      /\ tw_scans' = [tw_scans EXCEPT ![i].pc = "stuck"]
                      /\ UNCHANGED <<tw_slots, tw_timer, tw_tasks, tw_state>>
                [] OTHER ->
                      /\ tw_state' = "jobPanic"
                      /\ UNCHANGED <<tw_slots, tw_timer, tw_tasks, tw_scans>>
        /\ UNCHANGED <<tw_interval, tw_slotNum, tw_currentPos, tw_ticks, tw_overlap>>
        /\ UNCHANGED twOthers

TWNext ==
    \/ TWStart
    \/ TWStop
    \/ TWTick
    \/ TWAddJob
    \/ TWRemoveJob
    \/ TWScanFront
    \/ TWScanStep

(***************************************************************************)
(* Cluster.Exec.                                                           *)
(*                                                                         *)
(* A command line is a sequence of strings, the command's name first.  The *)
(* functions of package database2 (Info, Auth, StartMulti, DiscardMulti,   *)
(* EnqueueCmd), execMulti and the router's handlers are called by Exec and *)
(* defined outside these sources: each is modelled by its reply and its    *)
(* effect on the connection as the specification describes them.           *)
(***************************************************************************)
MaxQueue == 2       \* a command is not enqueued once MaxQueue commands are queued

Passwords == {"", "foo"}        \* the values of requirepass

CmdNames == {"auth", "AUTH", "info", "multi", "discard", "exec", "select", "get", "nosuch"}

CmdArgs == {"foo", "bar"}

CmdLines ==
    {<<>>} \cup {<<n>> : n \in CmdNames}
           \cup {<<n, "foo">> : n \in CmdNames}
           \cup {<<"auth", a>> : a \in CmdArgs}
           \cup {<<"get", a, b>> : a \in {"foo"}, b \in {"bar"}}

\* strings.ToLower
ToLower(name) == IF name = "AUTH" THEN "auth" ELSE name

\* the command names the router knows
router == {"get"}

\* isAuthenticated
isAuthenticated(c, requirePass) ==
    IF requirePass = "" THEN TRUE ELSE c.password = requirePass

\* what Exec hands back: the reply, the connection, and what was run
Out(reply, c, did) == [reply |-> reply, conn |-> c, did |-> did]

\* database2.Auth
Auth(c, args, requirePass) ==
    IF Len(args) # 1 THEN Out("ArgNumErr", c, "auth")
    ELSE IF requirePass = "" THEN Out("ErrNoPasswordSet", c, "auth")
    ELSE LET c1 == [c EXCEPT !.password = args[1]] IN
         IF requirePass # args[1] THEN Out("ErrInvalidPassword", c1, "auth")
         ELSE Out("OK", c1, "auth")

\* database2.StartMulti
StartMulti(c) ==
    IF c.multi THEN Out("ErrNestedMulti", c, "multi")
    ELSE Out("OK", [c EXCEPT !.multi = TRUE, !.queue = <<>>], "multi")

\* database2.DiscardMulti
DiscardMulti(c) ==
    IF ~c.multi THEN Out("ErrDiscardWithoutMulti", c, "discard")
    ELSE Out("OK", [c EXCEPT !.multi = FALSE, !.queue = <<>>], "discard")

\* execMulti
execMulti(c) ==
    IF ~c.multi THEN Out("ErrExecWithoutMulti", c, "exec")
    ELSE Out("MultiBulk", [c EXCEPT !.multi = FALSE, !.queue = <<>>], "exec")

\* database2.EnqueueCmd
EnqueueCmd(c, cmdLine) ==
    Out("QUEUED", [c EXCEPT !.queue = Append(c.queue, cmdLine)], "enqueue")

\* a panic unwinding out of the body of Exec; what the panicking callee did to
\* the connection before it panicked is not modelled
Faulted(c) == Out("PANIC", c, "panic")

\* a call made by Exec, which returns or panics
Call(c, fault, out) == IF fault THEN Faulted(c) ELSE out

InMultiStateNever(c) == FALSE

\* c != nil && c.InMultiState(): the connection's flagMulti is set
InMultiState(c) == c.multi

\* the body of Cluster.Exec; cmdLine[0] of an empty command line panics
dispatch(c, cmdLine, requirePass, dbIsServer, fault) ==
    IF Len(cmdLine) = 0 THEN Faulted(c)
    ELSE
    LET cmdName == ToLower(cmdLine[1])
        args == Tail(cmdLine)
    IN
    IF cmdName = "info" /\ dbIsServer THEN Call(c, fault, Out("Info", c, "info"))
    ELSE IF cmdName = "auth" THEN Call(c, fault, Auth(c, args, requirePass))
    ELSE IF ~isAuthenticated(c, requirePass) THEN Out("NOAUTH", c, "none")
    ELSE IF cmdName = "multi"
       THEN IF Len(cmdLine) # 1 THEN Out("ArgNumErr", c, "none")
            ELSE Call(c, fault, StartMulti(c))
    ELSE IF cmdName = "discard"
       THEN IF Len(cmdLine) # 1 THEN Out("ArgNumErr", c, "none")
            ELSE Call(c, fault, DiscardMulti(c))
    ELSE IF cmdName = "exec"
       THEN IF Len(cmdLine) # 1 THEN Out("ArgNumErr", c, "none")
            ELSE Call(c, fault, execMulti(c))
    ELSE IF cmdName = "select" THEN Out("ErrSelect", c, "none")
    ELSE IF InMultiState(c) THEN Call(c, fault, EnqueueCmd(c, cmdLine))
    ELSE IF cmdName \notin router THEN Out("ErrUnknownCommand", c, "none")
    ELSE Call(c, fault, Out("Handled", c, "cmdFunc"))

recoverNothing(out) == out

\* the deferred function of Cluster.Exec: a panic becomes UnknownErrReply
recover(out) ==
    IF out.reply = "PANIC" THEN Out("UnknownErr", out.conn, "panic") ELSE out

\* Cluster.Exec
Exec(c, cmdLine, requirePass, dbIsServer, fault) ==
    recover(dispatch(c, cmdLine, requirePass, dbIsServer, fault))

NewConn == [password |-> "", multi |-> FALSE, queue |-> <<>>]

NoCall == [cmdLine |-> <<>>, authed |-> TRUE, multi |-> FALSE, reply |-> "", did |-> "",
           queued |-> 0]

\* the cluster node while another component runs
CLIdle ==
    /\ cl_requirePass = ""
    /\ cl_dbIsServer = TRUE
    /\ cl_conn = NewConn
    /\ cl_last = NoCall

\* MakeCluster, and a connection made by connection.NewConn.  MakeCluster sets db
\* to database2.NewStandaloneServer(), whose type is declared outside these
\* sources: both outcomes of the type assertion in Exec are kept.
CLInit ==
    /\ cl_requirePass \in Passwords
    /\ cl_dbIsServer \in BOOLEAN
    /\ cl_conn = NewConn
    /\ cl_last = NoCall

\* one call of Cluster.Exec on the connection; fault: the function Exec calls for
\* the command panics
CLExec ==
    \E cmdLine \in CmdLines, fault \in BOOLEAN :
        LET r == Exec(cl_conn, cmdLine, cl_requirePass, cl_dbIsServer, fault) IN
        /\ Len(r.conn.queue) <= MaxQueue
        /\ cl_conn' = r.conn
        /\ cl_last' = [cmdLine |-> cmdLine,
                       authed |-> isAuthenticated(cl_conn, cl_requirePass),
                       multi |-> cl_conn.multi,
                       reply |-> r.reply, did |-> r.did,
                       queued |-> Len(r.conn.queue) - Len(cl_conn.queue)]
        /\ UNCHANGED <<cl_requirePass, cl_dbIsServer>>
        /\ UNCHANGED clOthers

CLNext == CLExec

(***************************************************************************)
(* Handler: the connection driver Handle, one call per accepted            *)
(* connection, each in its own goroutine, and Close.                       *)
(*                                                                         *)
(* parser.ParseStream and the engine h.db are defined outside these        *)
(* sources.  The parser is modelled by the payloads it may emit, one at a  *)
(* time, in the order Handle receives them; the engine by the result its   *)
(* Exec returns, a reply or nil.  A goroutine's steps are the statements   *)
(* between which another goroutine can run: the read of closing, the       *)
(* registration, the receive of a payload with the handling that follows   *)
(* it up to the call of Exec, and the write of the result.                 *)
(***************************************************************************)
MaxPayloads == 2    \* the payloads a connection's parser emits

Conns == {1, 2}

\* payloads whose Err is io.EOF, io.ErrUnexpectedEOF or "use of closed network
\* connection"
ClosedKinds == {"eof", "unexpectedEOF", "closedConn"}

\* payloads with another Err: a protocol error, after which the parser goes on,
\* and an I/O error, after which it closes the channel
ErrKinds == {"protoErr", "ioErr"}

\* payloads without Err that are not executed: no Data, Data not a multi bulk
SkipKinds == {"nil", "notMulti"}

Results == {"reply", "nil"}

Last(s) == IF Len(s) = 0 THEN "" ELSE s[Len(s)]

\* the parser has a payload for the loop of Handle
CanReceive(c) ==
    /\ h_pc[c] = "serving"
    /\ Len(h_seq[c]) < MaxPayloads
    /\ Last(h_seq[c]) # "ioErr"

\* client.Write of an error reply fails on a closed socket, and can fail on an
\* open one
WriteOutcomes(c) == IF h_sock[c] = "closed" THEN {FALSE} ELSE BOOLEAN

Event(ev, n, what, ok) == [ev |-> ev, n |-> n, what |-> what, ok |-> ok]

WrittenUnlessNil(log, n, result) ==
    IF result = "nil" THEN log ELSE Append(log, Event("write", n, "reply", TRUE))

\* the write that follows Exec: the result's bytes, or unknownErrReplyBytes.  The
\* error of Write is dropped, so its outcome changes nothing and is not recorded.
Written(log, n, result) ==
    Append(log, Event("write", n, IF result # "nil" THEN "reply" ELSE "unknown", TRUE))

\* Handler.closeClient
closeClient(c) ==
    /\ h_sock' = [h_sock EXCEPT ![c] = "closed"]
    /\ h_cleaned' = h_cleaned \cup {c}
    /\ h_activeConn' = h_activeConn \ {c}

\* the handler while another component runs
HIdle ==
    /\ h_closing = FALSE
    /\ h_activeConn = {}
    /\ h_pc = [c \in Conns |-> "none"]
    /\ h_sock = [c \in Conns |-> "open"]
    /\ h_seq = [c \in Conns |-> <<>>]
    /\ h_result = [c \in Conns |-> "none"]
    /\ h_log = [c \in Conns |-> <<>>]
    /\ h_cleaned = {}
    /\ h_closePc = "none"

\* MakeHandler, and the accepted connections not yet passed to Handle
HInit == HIdle

\* Handle is called and reads closing
HandleEnter(c) ==
    /\ h_pc[c] = "none"
    /\ IF h_closing
          THEN /\ h_sock' = [h_sock EXCEPT ![c] = "closed"]
               /\ h_pc' = [h_pc EXCEPT ![c] = "refused"]
          ELSE /\ h_pc' = [h_pc EXCEPT ![c] = "checked"]
               /\ UNCHANGED h_sock
    /\ UNCHANGED <<h_closing, h_activeConn, h_seq, h_result, h_log, h_cleaned, h_closePc>>
    /\ UNCHANGED hOthers

\* connection.NewConn, activeConn.Store and parser.ParseStream
HandleRegister(c) ==
    /\ h_pc[c] = "checked"
    /\ h_activeConn' = h_activeConn \cup {c}
    /\ h_pc' = [h_pc EXCEPT ![c] = "serving"]
    /\ UNCHANGED <<h_closing, h_sock, h_seq, h_result, h_log, h_cleaned, h_closePc>>
    /\ UNCHANGED hOthers

\* a payload that reports the connection closed
HandleClosed(c) ==
    /\ CanReceive(c)
    /\ \E kind \in ClosedKinds :
          /\ kind = "closedConn" => h_sock[c] = "closed"
          /\ h_seq' = [h_seq EXCEPT ![c] = Append(@, kind)]
    /\ closeClient(c)
    /\ h_pc' = [h_pc EXCEPT ![c] = "returned"]
    /\ UNCHANGED <<h_closing, h_result, h_log, h_closePc>>
    /\ UNCHANGED hOthers

\* a payload with another error: the error reply is written
HandleErr(c) ==
    /\ CanReceive(c)
    /\ \E kind \in ErrKinds, ok \in WriteOutcomes(c) :
          /\ h_seq' = [h_seq EXCEPT ![c] = Append(@, kind)]
          /\ h_log' = [h_log EXCEPT ![c] =
                          Append(@, Event("write", Len(h_seq[c]) + 1, "err", ok))]
          /\ IF ~ok
                THEN /\ closeClient(c)
                     /\ h_pc' = [h_pc EXCEPT ![c] = "returned"]
                ELSE UNCHANGED <<h_sock, h_cleaned, h_activeConn, h_pc>>
    /\ UNCHANGED <<h_closing, h_result, h_closePc>>
    /\ UNCHANGED hOthers

\* a payload without data, or whose data is not a multi bulk
HandleSkip(c) ==
    /\ CanReceive(c)
    /\ \E kind \in SkipKinds : h_seq' = [h_seq EXCEPT ![c] = Append(@, kind)]
    /\ UNCHANGED <<h_closing, h_activeConn, h_pc, h_sock, h_result, h_log, h_cleaned,
                   h_closePc>>
    /\ UNCHANGED hOthers

\* a multi bulk payload: h.db.Exec is called and returns
HandleExec(c) ==
    /\ CanReceive(c)
    /\ h_seq' = [h_seq EXCEPT ![c] = Append(@, "cmd")]
    /\ \E result \in Results :
          /\ h_result' = [h_result EXCEPT ![c] = result]
          /\ h_log' = [h_log EXCEPT ![c] =
                          Append(@, Event("exec", Len(h_seq[c]) + 1, result, TRUE))]
    /\ h_pc' = [h_pc EXCEPT ![c] = "executed"]
    /\ UNCHANGED <<h_closing, h_activeConn, h_sock, h_cleaned, h_closePc>>
    /\ UNCHANGED hOthers

\* the result of Exec is written; the error of Write is dropped
HandleWrite(c) ==
    /\ h_pc[c] = "executed"
    /\ h_log' = [h_log EXCEPT ![c] = Written(@, Len(h_seq[c]), h_result[c])]
    /\ h_result' = [h_result EXCEPT ![c] = "none"]
    /\ h_pc' = [h_pc EXCEPT ![c] = "serving"]
    /\ UNCHANGED <<h_closing, h_activeConn, h_sock, h_seq, h_cleaned, h_closePc>>
    /\ UNCHANGED hOthers

\* the parser closes the channel: the loop ends and Handle returns
HandleStreamEnd(c) ==
    /\ h_pc[c] = "serving"
    /\ Last(h_seq[c]) = "ioErr"
    /\ h_pc' = [h_pc EXCEPT ![c] = "returned"]
    /\ UNCHANGED <<h_closing, h_activeConn, h_sock, h_seq, h_result, h_log, h_cleaned,
                   h_closePc>>
    /\ UNCHANGED hOthers

\* Close: closing.Set(true)
CloseSet ==
    /\ h_closePc = "none"
    /\ h_closing' = TRUE
    /\ h_closePc' = "range"
    /\ UNCHANGED <<h_activeConn, h_pc, h_sock, h_seq, h_result, h_log, h_cleaned>>
    /\ UNCHANGED hOthers

\* Close: activeConn.Range closes every registered client
CloseRange ==
    /\ h_closePc = "range"
    /\ h_sock' = [c \in Conns |-> IF c \in h_activeConn THEN "closed" ELSE h_sock[c]]
    /\ h_closePc' = "db"
    /\ UNCHANGED <<h_closing, h_activeConn, h_pc, h_seq, h_result, h_log, h_cleaned>>
    /\ UNCHANGED hOthers

\* Close: h.db.Close(), and the return
CloseReturn ==
    /\ h_closePc = "db"
    /\ h_closePc' = "returned"
    /\ UNCHANGED <<h_closing, h_activeConn, h_pc, h_sock, h_seq, h_result, h_log,
                   h_cleaned>>
    /\ UNCHANGED hOthers

HNext ==
    \/ \E c \in Conns : HandleEnter(c)
    \/ \E c \in Conns : HandleRegister(c)
    \/ \E c \in Conns : HandleClosed(c)
    \/ \E c \in Conns : HandleErr(c)
    \/ \E c \in Conns : HandleSkip(c)
    \/ \E c \in Conns : HandleExec(c)
    \/ \E c \in Conns : HandleWrite(c)
    \/ \E c \in Conns : HandleStreamEnd(c)
    \/ CloseSet
    \/ CloseRange
    \/ CloseReturn

(***************************************************************************)
(* The slot table of a cluster node and the callbacks the keyspace calls   *)
(* after it has inserted or deleted a key.                                 *)
(*                                                                         *)
(* A callback takes two steps: the lookup of the slot under slotMu, and    *)
(* the update of the slot's key set under the slot's own lock.  Callbacks  *)
(* for different keys run concurrently; the keyspace calls the callbacks   *)
(* of one key one after the other.  getSlot and the functions that add     *)
(* slots to the table or remove them are defined outside these sources:    *)
(* getSlot is modelled as the specification gives it, and the table is     *)
(* any set of slots that stays as it is.                                   *)
(***************************************************************************)
slotCount == 2      \* 16384 in the program

SlotKeys == {<<"a">>, <<"b">>, <<"{", "a", "}">>, <<"{", "a", "}", "b">>}

\* getSlot: hash of the key's hash tag, or of the whole key, modulo slotCount
getSlot(key) == hashFunc(IF HasHashTag(key) THEN HashTag(key) ELSE key) % slotCount

\* the lookup cluster.slots[slotId] of a callback
Lookup(slots, op, key) ==
    [op |-> op, key |-> key, slot |-> getSlot(key), ok |-> getSlot(key) \in DOMAIN slots]

keysRemoveNothing(slots, call) == slots

\* the insert callback below the lookup: slot.keys.Add(key)
keysAdd(slots, call) ==
    IF call.ok THEN [slots EXCEPT ![call.slot] = @ \cup {call.key}] ELSE slots

\* the delete callback below the lookup: slot.keys.Remove(key)
keysRemove(slots, call) ==
    IF call.ok THEN [slots EXCEPT ![call.slot] = @ \ {call.key}] ELSE slots

\* the slot table while another component runs
SLIdle ==
    /\ sl_slots = <<>>
    /\ sl_last = [k \in SlotKeys |-> "none"]
    /\ sl_calls = {}

\* MakeCluster: the slots this node hosts, each with an empty key set
SLInit ==
    /\ \E table \in SUBSET (0..(slotCount - 1)) : sl_slots = [i \in table |-> {}]
    /\ sl_last = [k \in SlotKeys |-> "none"]
    /\ sl_calls = {}

\* the insert callback is called and looks up the slot
SLInsertCalled ==
    \E key \in SlotKeys :
        /\ \A c \in sl_calls : c.key # key
        /\ sl_calls' = sl_calls \cup {Lookup(sl_slots, "insert", key)}
        /\ sl_last' = [sl_last EXCEPT ![key] = "insert"]
        /\ UNCHANGED sl_slots
        /\ UNCHANGED slOthers

\* the delete callback is called and looks up the slot
SLDeleteCalled ==
    \E key \in SlotKeys :
        /\ \A c \in sl_calls : c.key # key
        /\ sl_calls' = sl_calls \cup {Lookup(sl_slots, "delete", key)}
        /\ sl_last' = [sl_last EXCEPT ![key] = "delete"]
        /\ UNCHANGED sl_slots
        /\ UNCHANGED slOthers

\* the insert callback updates the slot's keys and returns
SLInsertDone ==
    \E call \in sl_calls :
        /\ call.op = "insert"
        /\ sl_slots' = keysAdd(sl_slots, call)
        /\ sl_calls' = sl_calls \ {call}
        /\ UNCHANGED sl_last
        /\ UNCHANGED slOthers

\* the delete callback updates the slot's keys and returns
SLDeleteDone ==
    \E call \in sl_calls :
        /\ call.op = "delete"
        /\ sl_slots' = keysRemove(sl_slots, call)
        /\ sl_calls' = sl_calls \ {call}
        /\ UNCHANGED sl_last
        /\ UNCHANGED slOthers

SLNext ==
    \/ SLInsertCalled
    \/ SLDeleteCalled
    \/ SLInsertDone
    \/ SLDeleteDone

(***************************************************************************)
(* Specifications: one per component.                                      *)
(***************************************************************************)
InitQL == QLInit /\ MIdle /\ TWIdle /\ CLIdle /\ HIdle /\ SLIdle

SpecQL == InitQL /\ [][QLNext]_vars

InitRing == MInit /\ QLIdle /\ TWIdle /\ CLIdle /\ HIdle /\ SLIdle

SpecRing == InitRing /\ [][MNext]_vars

InitTW == TWInit /\ QLIdle /\ MIdle /\ CLIdle /\ HIdle /\ SLIdle

SpecTW == InitTW /\ [][TWNext]_vars

InitCluster == CLInit /\ QLIdle /\ MIdle /\ TWIdle /\ HIdle /\ SLIdle

SpecCluster == InitCluster /\ [][CLNext]_vars

InitHandler == HInit /\ QLIdle /\ MIdle /\ TWIdle /\ CLIdle /\ SLIdle

SpecHandler == InitHandler /\ [][HNext]_vars

InitSlots == SLInit /\ QLIdle /\ MIdle /\ TWIdle /\ CLIdle /\ HIdle

SpecSlots == InitSlots /\ [][SLNext]_vars

(***************************************************************************)
(* Claims about the QuickList.                                             *)
(***************************************************************************)

\* C1: after any sequence of QuickList operations from the empty list, Len()
\* (ql_size) equals the sum of the lengths of all pages linked in the list.
C1_SizeIsSumOfPages == ql_size = SumLen(ql_data)

\* C1's case: a list of several pages of unequal length, which only an Insert into
\* a full page or a removal inside the list produces.
C1_Witness ==
    /\ Len(ql_data) >= 2
    /\ \E i, j \in 1..Len(ql_data) : Len(ql_data[i].elems) # Len(ql_data[j].elems)
    /\ ~ql_tailOnly

InteriorPagesFull ==
    \A i \in 1..(Len(ql_data) - 1) : Len(ql_data[i].elems) = pageSize

\* C2 as stated: in every reachable state every page other than the tail page
\* holds exactly pageSize elements.
C2_Original == InteriorPagesFull

\* C2 amended: as long as every operation so far acted on the tail of the list
\* (Add, Insert at index Len(), Set, RemoveLast), every page other than the tail
\* page holds exactly pageSize elements and no page holds more.
C2_InteriorFullWhileTailOnly ==
    ql_tailOnly =>
        /\ InteriorPagesFull
        /\ \A i \in 1..Len(ql_data) : Len(ql_data[i].elems) \in 1..pageSize

\* C2's case: a list grown by tail operations alone past one page.
C2_Witness ==
    /\ ql_tailOnly
    /\ Len(ql_data) = 2
    /\ Len(ql_data[2].elems) = 1



\* the list as a value, and its logical sequence
ThisList == QL(ql_data, ql_size)

Logical(q) == Flatten(q.data)

\* Insert(index, val) yields the sequence with val at position index
InsertsAt(index, val, slack) ==
    LET r == Insert(ThisList, index, val, slack) IN
    /\ ~r.panic
    /\ Logical(r) = InsertAt(Logical(ThisList), index, val)
    /\ r.size = ql_size + 1

\* Insert into a full page leaves two halves of pageSize/2 elements, the second
\* directly after the first, with val added to the half that holds its position
SplitsInHalves(index, val, slack) ==
    LET iter == find(ThisList, index)
        r == Insert(ThisList, index, val, slack)
        half == pageSize \div 2
    IN (index < ql_size /\ Len(ql_data[iter.node].elems) >= pageSize) =>
          /\ Len(r.data) = Len(ql_data) + 1
          /\ Len(r.data[iter.node].elems) = half + (IF iter.offset < half THEN 1 ELSE 0)
          /\ Len(r.data[iter.node + 1].elems) = half + (IF iter.offset < half THEN 0 ELSE 1)

\* C13 as stated: in every reachable list, Insert(index, val) with
\* 0 <= index <= Len() puts val at position index and shifts the elements from
\* index on up by one, and an Insert into a full page splits it into two halves
\* of pageSize/2 elements.
C13_InsertShiftsAndSplits ==
    \A index \in 0..ql_size, val \in Vals, slack \in Slack :
        InsertsAt(index, val, slack) /\ SplitsInHalves(index, val, slack)


\* the position in the logical sequence that an iterator stands at
PositionOf(q, iter) == SumLen(Slice(q.data, 0, iter.node - 1)) + iter.offset

\* C14: in every reachable page layout and for every index in [0, Len()), find
\* stops at position index and Get(index) returns the element at that position
\* of the logical sequence, searching from the front or from the back.
C14_GetReturnsElementAtIndex ==
    \A index \in 0..(ql_size - 1) :
        /\ ~find(ThisList, index).panic
        /\ PositionOf(ThisList, find(ThisList, index)) = index
        /\ Get(ThisList, index) = [panic |-> FALSE, val |-> Logical(ThisList)[index + 1]]

\* C14's case: pages of unequal length after a split or a removal, two values in
\* the list, and indexes on both sides of size/2 that lie in different pages
C14_Witness ==
    /\ ~ql_tailOnly
    /\ ql_size >= 4
    /\ Len(ql_data) >= 2
    /\ Len(ql_data[1].elems) # Len(ql_data[2].elems)
    /\ \E i, j \in 1..ql_size : Logical(ThisList)[i] # Logical(ThisList)[j]
    /\ find(ThisList, 0).node # find(ThisList, ql_size - 1).node


\* C18: in every reachable state no page of the list is empty, and a list with
\* Len() = 0 has no pages.
C18_NoEmptyPage ==
    /\ \A i \in 1..Len(ql_data) : Len(ql_data[i].elems) >= 1
    /\ ql_size = 0 => ql_data = <<>>

\* C18's case: the first page of the list is the second half of a split, the page
\* before it having been unlinked when its last element was removed
C18_Witness ==
    /\ ~ql_tailOnly
    /\ ql_ret.panic = ""
    /\ Len(ql_data) = 1
    /\ ql_data[1].cap < pageSize

\* the elements of a sequence other than target, in their order
Keeping(seq, target) == SelectSeq(seq, LAMBDA v : v # target)

\* C20 as stated: in every reachable list, the empty list included, and for every
\* value, RemoveAllByVal returns the number of elements equal to the value and
\* leaves the other elements in their order.
C20_RemoveAllByVal ==
    \A target \in Vals :
        LET r == RemoveAllByVal(ThisList, target)
            kept == Keeping(Logical(ThisList), target)
        IN /\ ~r.panic
           /\ Logical(r) = kept
           /\ r.size = Len(kept)
           /\ r.val = ql_size - Len(kept)

\* seq without the first n elements equal to target
RECURSIVE DropFirst(_, _, _)
DropFirst(seq, target, n) ==
    IF seq = <<>> \/ n = 0 THEN seq
    ELSE IF Head(seq) = target THEN DropFirst(Tail(seq), target, n - 1)
    ELSE <<Head(seq)>> \o DropFirst(Tail(seq), target, n)

\* seq without the last n elements equal to target
RECURSIVE DropLast(_, _, _)
DropLast(seq, target, n) ==
    IF seq = <<>> \/ n = 0 THEN seq
    ELSE LET front == SubSeq(seq, 1, Len(seq) - 1)
             last == seq[Len(seq)]
         IN IF last = target THEN DropLast(front, target, n - 1)
            ELSE Append(DropLast(front, target, n), last)

\* C21 as stated: in every reachable list and for every value and every
\* count > 0, RemoveByVal removes the first min(count, matches) elements equal to
\* the value, keeps the others in their order, and returns the number removed.
C21_RemoveByVal ==
    \A target \in Vals, count \in Counts :
        LET r == RemoveByVal(ThisList, target, count)
            kept == DropFirst(Logical(ThisList), target, count)
        IN /\ ~r.panic
           /\ Logical(r) = kept
           /\ r.size = Len(kept)
           /\ r.val = ql_size - Len(kept)

\* C22 as stated: in every reachable list and for every value and every
\* count > 0, ReverseRemoveByVal removes the last min(count, matches) elements
\* equal to the value, keeps the others in their order, and returns the number
\* removed.
C22_ReverseRemoveByVal ==
    \A target \in Vals, count \in Counts :
        LET r == ReverseRemoveByVal(ThisList, target, count)
            kept == DropLast(Logical(ThisList), target, count)
        IN /\ ~r.panic
           /\ Logical(r) = kept
           /\ r.size = Len(kept)
           /\ r.val = ql_size - Len(kept)


(***************************************************************************)
(* Claims about the consistent-hash ring.                                  *)
(***************************************************************************)
MaxAffix == 1     \* the longest prefix and suffix put around a hash tag

Tagged(prefix, t, suffix) == prefix \o <<"{">> \o t \o <<"}">> \o suffix

\* C3 as stated: on a non-empty ring, for every key k with hash tag t and all
\* strings prefix and suffix, PickNode(k) and PickNode(prefix{t}suffix) both return,
\* and return the same node.
C3_SameTagSameNode ==
    Len(m_keys) > 0 =>
        \A k \in Strs(MaxKeyLen), prefix \in Strs(MaxAffix), suffix \in Strs(MaxAffix) :
            HasHashTag(k) =>
                LET r1 == PickNode(Map, k)
                    r2 == PickNode(Map, Tagged(prefix, HashTag(k), suffix))
                IN ~r1.panic /\ ~r2.panic /\ r1.val = r2.val


\* the hash points on the ring
Points == {m_keys[i] : i \in 1..Len(m_keys)}

\* the smallest point >= hash, or the smallest point of the ring when there is none
NearestPoint(hash) ==
    LET above == {p \in Points : p >= hash}
        from == IF above = {} THEN Points ELSE above
    IN CHOOSE p \in from : \A q \in from : p <= q

\* C15 as stated: PickNode(key) returns the empty string on an empty ring; on a
\* non-empty ring it returns the node of the smallest hash point >=
\* hash(partitionKey(key)), wrapping to the smallest point of the ring, and the
\* node is one of the nodes added with AddNode.
C15_PickNodeNearestPoint ==
    \A key \in Strs(MaxKeyLen) :
        LET r == PickNode(Map, key) IN
        /\ ~r.panic
        /\ IF Len(m_keys) = 0 THEN r.val = <<>>
           ELSE /\ ~getPartitionKey(key).panic
                /\ r.val = m_hashMap[NearestPoint(hashFunc(getPartitionKey(key).val))]
                /\ r.val \in m_added


(***************************************************************************)
(* Claims about the time wheel.                                            *)
(***************************************************************************)
TaskIds == 1..Len(tw_tasks)

\* the task's element is linked in a slot list
Pending(id) == tw_tasks[id].list # -1

\* C4 as stated: processing an add, processing a remove and scanning a bucket are
\* mutually serialized: the loop never handles an add or a remove while a scan
\* holds an element of a slot list.
C4_ScanSerializedWithLoop == ~tw_overlap

\* C5 as stated (its safety half): a job that was never cancelled or replaced is
\* dispatched at most once, and not before floor(d/interval) ticks have been
\* handled since the wheel processed its add.
C5_NotEarlyAtMostOnce ==
    \A id \in TaskIds :
        LET t == tw_tasks[id] IN
        t.cancelled = "" =>
            /\ t.fired <= 1
            /\ t.fired = 1 => t.firedAt - t.addedAt >= t.delay \div tw_interval

\* C6 as stated: a job whose RemoveJob the wheel processed before it was dispatched
\* is never dispatched afterwards.
C6_RemovedNeverDispatched ==
    \A id \in TaskIds :
        ~(tw_tasks[id].cancelled = "removed" /\ tw_tasks[id].firedCancelled)

\* C7 as stated: a job replaced by an AddJob with its key is never dispatched; at
\* most one task is pending per non-empty key, and the key map points at it.
C7_OnePendingPerKey ==
    /\ \A id \in TaskIds :
          ~(tw_tasks[id].cancelled = "replaced" /\ tw_tasks[id].firedCancelled)
    /\ \A key \in TWKeys \ {""} :
          LET pending == {id \in TaskIds : Pending(id) /\ tw_tasks[id].key = key} IN
          /\ Cardinality(pending) <= 1
          /\ \A id \in pending :
                key \in DOMAIN tw_timer /\ tw_timer[key].etask = id


\* C16 as stated: on every wheel that New accepts and for every delay d >= 0, the
\* loop's handling of an add does not fault and places the task in bucket
\* (cursor + d/interval) mod slotNum with circle = d/(interval*slotNum), the
\* divisions being integer divisions of the durations.
C16_PositionAndCircle ==
    /\ tw_state # "crashed"
    /\ tw_state = "running" =>
          \A d \in Delays :
              LET pc == getPositionAndCircle(d, tw_interval, tw_currentPos, tw_slotNum) IN
              /\ ~pc.panic
              /\ pc.pos = (tw_currentPos + d \div tw_interval) % tw_slotNum
              /\ pc.circle = d \div (tw_interval * tw_slotNum)

\* C17: every due job runs in a worker of its own: a job that blocks for ever
\* or panics neither holds up the scan that dispatched it nor brings down the
\* wheel, so the other due jobs of the bucket are dispatched and the loop goes on
\* with later ticks and requests.
C17_JobsRunInOwnWorker ==
    /\ tw_state # "jobPanic"
    /\ \A i \in 1..Len(tw_scans) : tw_scans[i].pc # "stuck"
    /\ \A id \in TaskIds :
          tw_tasks[id].fired > 0 => tw_tasks[id].worker \in {"done", "blocked", "recovered"}

\* C17's case: a job that blocks and a job that panics were dispatched at the
\* same tick, the panicking one after the blocking one or the other way round,
\* and the wheel has handled a later tick
C17_Witness ==
    \E i \in TaskIds, j \in TaskIds :
        /\ tw_tasks[i].worker = "blocked"
        /\ tw_tasks[j].worker = "recovered"
        /\ tw_tasks[i].firedAt = tw_tasks[j].firedAt
        /\ tw_tasks[i].addedAt = tw_tasks[j].addedAt
        /\ tw_ticks > tw_tasks[i].firedAt
        /\ tw_state = "running"

(***************************************************************************)
(* Claims about Cluster.Exec.                                              *)
(***************************************************************************)

\* C8: when requirepass is non-empty, every command other than AUTH sent on a
\* connection whose password differs from requirepass is answered with NOAUTH
\* and is neither executed nor enqueued.
C8_NoAuthBeforeAuth ==
    (/\ cl_last.did # ""
     /\ cl_requirePass # ""
     /\ ~cl_last.authed
     /\ Len(cl_last.cmdLine) > 0
     /\ ToLower(cl_last.cmdLine[1]) # "auth")
        => (cl_last.reply = "NOAUTH" /\ cl_last.did = "none" /\ cl_last.queued = 0)

ControlNames == {"auth", "multi", "discard", "exec"}

\* C23 as stated: for a call of Exec on an authenticated connection in Multi
\* state, no router handler is invoked, every command that is not a control
\* command is handed to EnqueueCmd, and MULTI, DISCARD and EXEC with extra
\* arguments get an arity error and leave the queue as it was.
C23_MultiOnlyEnqueues ==
    (/\ cl_last.did # ""
     /\ cl_last.authed
     /\ cl_last.multi
     /\ Len(cl_last.cmdLine) > 0)
        => LET name == ToLower(cl_last.cmdLine[1]) IN
           /\ cl_last.did # "cmdFunc"
           /\ name \notin ControlNames => cl_last.did \in {"enqueue", "panic"}
           /\ (name \in {"multi", "discard", "exec"} /\ Len(cl_last.cmdLine) > 1) =>
                  (cl_last.reply = "ArgNumErr" /\ cl_last.queued = 0)

\* the commands Exec answers itself ahead of the test of the Multi state
AnsweredNames == ControlNames \cup {"info", "select"}

\* C23, amended: for a call of Exec on an authenticated connection in Multi state,
\* no router handler is invoked; every command other than AUTH, INFO, MULTI,
\* DISCARD, EXEC and SELECT is handed to EnqueueCmd, and so is INFO when the
\* engine is not a standalone server; SELECT is rejected and leaves the queue as
\* it was, and so do MULTI, DISCARD and EXEC with extra arguments, with an arity
\* error.
C23_MultiEnqueuesUnlessAnswered ==
    (/\ cl_last.did # ""
     /\ cl_last.authed
     /\ cl_last.multi
     /\ Len(cl_last.cmdLine) > 0)
        => LET name == ToLower(cl_last.cmdLine[1]) IN
           /\ cl_last.did # "cmdFunc"
           /\ name \notin AnsweredNames => cl_last.did \in {"enqueue", "panic"}
           /\ (name = "info" /\ ~cl_dbIsServer) => cl_last.did \in {"enqueue", "panic"}
           /\ (name = "info" /\ cl_dbIsServer) =>
                  (cl_last.did \in {"info", "panic"} /\ cl_last.queued = 0)
           /\ name = "select" => (cl_last.reply = "ErrSelect" /\ cl_last.queued = 0)
           /\ (name \in {"multi", "discard", "exec"} /\ Len(cl_last.cmdLine) > 1) =>
                  (cl_last.reply = "ArgNumErr" /\ cl_last.queued = 0)

\* C23's case: a connection that authenticated with the password is in Multi
\* state, a command of the router is in its queue, and a command with an unknown
\* name has just been enqueued behind it
C23_Witness ==
    /\ cl_requirePass # ""
    /\ cl_last.authed /\ cl_last.multi
    /\ cl_last.cmdLine = <<"nosuch">>
    /\ cl_last.did = "enqueue" /\ cl_last.reply = "QUEUED" /\ cl_last.queued = 1
    /\ cl_conn.multi
    /\ Len(cl_conn.queue) = 2
    /\ cl_conn.queue[1][1] \in router

(***************************************************************************)
(* Claims about the slot table.                                            *)
(***************************************************************************)
InFlight(key) == \E c \in sl_calls : c.key = key

\* C19: for every slot in the table, slot.keys holds exactly the keys of that
\* slot whose most recent callback was an insert (a key whose callback has not
\* returned yet may be either way); it holds no key of another slot, and a
\* callback for a slot that is not in the table changes nothing.
C19_SlotKeysFollowCallbacks ==
    \A slot \in DOMAIN sl_slots :
        /\ \A key \in sl_slots[slot] : getSlot(key) = slot
        /\ \A key \in SlotKeys :
              (getSlot(key) = slot /\ ~InFlight(key)) =>
                  (key \in sl_slots[slot] <=> sl_last[key] = "insert")

\* C19's case: a slot of the table holds one key and has lost another to a delete
\* callback, while a callback for a slot that is not in the table has returned
C19_Witness ==
    /\ sl_calls = {}
    /\ \E slot \in DOMAIN sl_slots, k1 \in SlotKeys, k2 \in SlotKeys, k3 \in SlotKeys :
          /\ getSlot(k1) = slot /\ getSlot(k2) = slot
          /\ k1 \in sl_slots[slot] /\ k2 \notin sl_slots[slot]
          /\ sl_last[k2] = "delete"
          /\ getSlot(k3) \notin DOMAIN sl_slots /\ sl_last[k3] = "insert"

(***************************************************************************)
(* Claims about the Handler.                                               *)
(***************************************************************************)
Execs(log) == SelectSeq(log, LAMBDA e : e.ev = "exec")

ResultWrites(log) == SelectSeq(log, LAMBDA e : e.ev = "write" /\ e.what # "err")

CmdIndexes(seq) == {n \in 1..Len(seq) : seq[n] = "cmd"}

C11_ReturnedIsCleanedUp ==
    \A c \in Conns :
        h_pc[c] = "returned" =>
            /\ h_sock[c] = "closed"
            /\ c \in h_cleaned
            /\ c \notin h_activeConn

\* C10: after Close has returned, every connection that Handle was called for
\* and did not refuse has been closed.
C10_AllClosedAfterClose ==
    h_closePc = "returned" =>
        \A c \in Conns : h_pc[c] \in {"checked", "serving", "executed"} => h_sock[c] = "closed"

\* C24 as stated: once Close has set closing, no step passes a command received
\* on a connection to the engine's Exec.
C24_NoExecAfterClosing ==
    [][h_closing => \A c \in Conns : Execs(h_log'[c]) = Execs(h_log[c])]_vars

=============================================================================
